---- MODULE Spec2Model ----
(***************************************************************************)
(* Persistent string-keyed map of package ps (internal/ps/map.go): a       *)
(* path-copying tree with fan-out 8, routed by the 3-bit digits of the     *)
(* FNV-1a hash of the key.                                                 *)
(*                                                                         *)
(* Representation.                                                         *)
(*  - A *tree pointer is an index into the sequence `heap`; heap[p] is the *)
(*    struct that p points at.  Allocation (clone) appends to the heap.    *)
(*  - A uint64 is the tuple of its NumDigits base-childCount digits, least *)
(*    significant first (the top digit holds the one remaining bit), so    *)
(*    that `x % childCount` is the first digit and `x >> shiftSize` drops  *)
(*    it.  Arithmetic is modulo 2^64.                                      *)
(*  - A Go string is the tuple of its bytes.                               *)
(***************************************************************************)
EXTENDS Integers, Sequences, FiniteSets, TLC

VARIABLES heap, versions, panicked, writer, reader

vars == <<heap, versions, panicked, writer, reader>>

(***************************************************************************)
(* Bounds of the model                                                     *)
(***************************************************************************)
\* number of Set/Delete calls in a chain m = m.Set(...) / m = m.Delete(...)
MaxOps == 4
\* number of Set/Delete calls when any held version may be the receiver
MaxForkOps == 3
\* number of Set/Delete calls on the keys of the wider trees
MaxWideOps == 6
\* number of Set/Delete calls, and of Delete calls among them, on the keys
\* of the deep trees
MaxDeepOps == 25
MaxDeepDeletes == 1
\* number of Set/Delete calls next to which a reader runs
MaxRaceOps == 3

\* values stored in the map (non-nil values of type Any)
Values == {1, 2}

(***************************************************************************)
(* Constants of the program                                                *)
(***************************************************************************)
childCount == 8
shiftSize == 3
\* bits of a uint64
HashBits == 64
\* digits of shiftSize bits that cover a uint64: ceil(64 / 3)
NumDigits == (HashBits + shiftSize - 1) \div shiftSize
\* the bits held by the top digit
TopModulus == 2 ^ (HashBits - shiftSize * (NumDigits - 1))

\* utf8.RuneSelf and utf8.RuneError: what `range` over a string yields
RuneSelf == 128
RuneError == 65533

\* the nil interface value
NilValue == 0
\* the zero string
EmptyKey == <<>>

(***************************************************************************)
(* uint64 arithmetic on digit tuples                                       *)
(***************************************************************************)
Zero64 == [d \in 1..NumDigits |-> 0]

\* 14695981039346656037
offset64 == <<5, 4, 4, 1, 2, 4, 0, 1, 4, 0, 2, 2, 6, 1, 7, 4, 2, 6, 7, 5, 4, 1>>
\* 1099511628211
prime64 == <<3, 6, 6, 0, 0, 0, 0, 0, 0, 0, 0, 0, 0, 2, 0, 0, 0, 0, 0, 0, 0, 0>>

RECURSIVE DigitOf(_, _)
\* digit d of the natural n
DigitOf(n, d) == IF d = 1 THEN n % childCount ELSE DigitOf(n \div childCount, d - 1)

\* uint64(codepoint)
ToUint64(n) == [d \in 1..NumDigits |-> DigitOf(n, d)]

RECURSIVE XorDigit(_, _)
\* bitwise exclusive or of two naturals
XorDigit(x, y) ==
    IF x = 0 /\ y = 0 THEN 0
    ELSE ((x + y) % 2) + 2 * XorDigit(x \div 2, y \div 2)

\* a ^ b
Xor64(a, b) == [d \in 1..NumDigits |-> XorDigit(a[d], b[d])]

RECURSIVE ColumnSum(_, _, _, _)
\* sum of a[i] * b[k + 1 - i] for i in from..k
ColumnSum(a, b, k, from) ==
    IF from > k THEN 0
    ELSE a[from] * b[k + 1 - from] + ColumnSum(a, b, k, from + 1)

RECURSIVE MulDigits(_, _, _, _)
\* digits k..NumDigits of a * b, given the carry into digit k
MulDigits(a, b, k, carry) ==
    IF k > NumDigits THEN <<>>
    ELSE LET s == ColumnSum(a, b, k, 1) + carry
             m == IF k = NumDigits THEN TopModulus ELSE childCount
         IN  <<s % m>> \o MulDigits(a, b, k + 1, s \div childCount)

\* a * b (mod 2^64)
Mul64(a, b) == MulDigits(a, b, 1, 0)

\* x % childCount
Mod8(x) == x[1]

\* x >> shiftSize
Shr3(x) == [d \in 1..NumDigits |-> IF d < NumDigits THEN x[d + 1] ELSE 0]

(***************************************************************************)
(* Hashing                                                                 *)
(***************************************************************************)
\* byte i + n of key is there and lies in lo..hi
ByteIn(key, i, n, lo, hi) ==
    /\ i + n <= Len(key)
    /\ lo <= key[i + n]
    /\ key[i + n] <= hi

\* The rune that `range` yields at byte i of key, and the bytes it consumes:
\* an ASCII byte is its own code point; a well-formed UTF-8 sequence of 2, 3
\* or 4 bytes (shortest form, no surrogate, at most U+10FFFF) is the code
\* point it encodes; any other byte yields RuneError and is consumed alone.
DecodeRune(key, i) ==
    LET b0 == key[i]
        b1 == key[i + 1]
        b2 == key[i + 2]
        b3 == key[i + 3]
        lo1 == IF b0 = 224 THEN 160 ELSE IF b0 = 240 THEN 144 ELSE 128
        hi1 == IF b0 = 237 THEN 159 ELSE IF b0 = 244 THEN 143 ELSE 191
    IN  IF b0 < RuneSelf THEN [rune |-> b0, size |-> 1]
        ELSE IF /\ 194 <= b0 /\ b0 <= 223
                /\ ByteIn(key, i, 1, 128, 191)
        THEN [rune |-> (b0 % 32) * 64 + (b1 % 64), size |-> 2]
        ELSE IF /\ 224 <= b0 /\ b0 <= 239
                /\ ByteIn(key, i, 1, lo1, hi1)
                /\ ByteIn(key, i, 2, 128, 191)
        THEN [rune |-> (b0 % 16) * 4096 + (b1 % 64) * 64 + (b2 % 64),
              size |-> 3]
        ELSE IF /\ 240 <= b0 /\ b0 <= 244
                /\ ByteIn(key, i, 1, lo1, hi1)
                /\ ByteIn(key, i, 2, 128, 191)
                /\ ByteIn(key, i, 3, 128, 191)
        THEN [rune |-> (b0 % 8) * 262144 + (b1 % 64) * 4096 + (b2 % 64) * 64
                           + (b3 % 64),
              size |-> 4]
        ELSE [rune |-> RuneError, size |-> 1]

RECURSIVE hashFrom(_, _, _)
hashFrom(hash, key, i) ==
    IF i > Len(key) THEN hash
    ELSE LET d == DecodeRune(key, i)
         IN  hashFrom(Mul64(Xor64(hash, ToUint64(d.rune)), prime64),
                      key, i + d.size)

\* hashKey returns a hash code for a given string
hashKey(key) == hashFrom(offset64, key, 1)

\* The keys of the model: "\xff" and "\xfe" (two invalid bytes, both read as
\* U+FFFD, hence one hash, with digits 0, 1, ...), "u" (digits 0, 6, ...: it
\* shares its first digit with U+FFFD) and "a" (digits 4, 1, ...).
KeyDomain == {<<255>>, <<254>>, <<117>>, <<97>>}

\* The keys of the wider trees: "\xff", "u", "a" and "i" (digits 4, 4, ...: it
\* shares its first digit with "a"), four hashes.
WideKeys == {<<255>>, <<117>>, <<97>>, <<105>>}

\* The keys of the deep trees, each of five characters of three bytes.  The
\* hash of DeepKeys[j], for j up to 23, agrees with the hash of DeepKeys[23]
\* on its 3 * (j - 1) low bits and differs from it above (DeepKeys[22] in
\* bit 63 alone), and DeepKeys[24] has the very hash of DeepKeys[23].
DeepKeys ==
   <<
      <<229, 188, 179, 233, 149, 184, 226, 184, 144, 234, 187, 161, 228, 180, 136>>,
      <<229, 188, 179, 233, 149, 184, 226, 184, 144, 234, 187, 167, 228, 148, 151>>,
      <<229, 188, 176, 233, 183, 136, 239, 152, 145, 234, 190, 161, 228, 188, 151>>,
      <<229, 188, 176, 233, 183, 135, 239, 137, 190, 230, 170, 161, 228, 148, 153>>,
      <<229, 188, 177, 233, 181, 142, 227, 139, 179, 237, 150, 157, 239, 180, 150>>,
      <<229, 188, 179, 233, 149, 181, 227, 136, 139, 235, 150, 152, 229, 180, 150>>,
      <<229, 188, 183, 233, 159, 157, 229, 139, 178, 230, 185, 162, 229, 180, 145>>,
      <<229, 188, 184, 235, 138, 184, 227, 136, 164, 235, 154, 184, 229, 180, 153>>,
      <<229, 188, 171, 239, 150, 176, 231, 184, 175, 229, 183, 169, 229, 180, 158>>,
      <<229, 188, 160, 233, 141, 153, 229, 152, 187, 234, 170, 188, 229, 180, 133>>,
      <<229, 163, 149, 233, 141, 128, 231, 152, 129, 237, 150, 130, 229, 183, 163>>,
      <<229, 188, 166, 233, 138, 137, 227, 153, 176, 231, 152, 151, 229, 181, 133>>,
      <<229, 163, 136, 233, 150, 184, 227, 138, 177, 230, 169, 180, 229, 183, 160>>,
      <<229, 188, 131, 233, 141, 183, 227, 183, 176, 235, 187, 191, 229, 178, 150>>,
      <<229, 190, 148, 235, 137, 177, 227, 156, 129, 230, 180, 185, 229, 183, 180>>,
      <<229, 187, 160, 233, 183, 178, 237, 129, 159, 234, 173, 185, 229, 181, 131>>,
      <<229, 164, 137, 233, 136, 182, 229, 133, 164, 230, 184, 145, 229, 176, 181>>,
      <<229, 168, 157, 233, 142, 173, 227, 152, 144, 230, 163, 164, 229, 162, 139>>,
      <<229, 168, 157, 233, 142, 171, 227, 141, 183, 230, 186, 148, 228, 128, 138>>,
      <<229, 128, 176, 232, 163, 136, 237, 154, 148, 231, 153, 182, 229, 156, 191>>,
      <<229, 140, 149, 232, 134, 138, 228, 165, 139, 231, 130, 162, 228, 152, 183>>,
      <<229, 154, 132, 234, 178, 177, 236, 149, 182, 229, 163, 140, 229, 149, 132>>,
      <<229, 188, 178, 233, 155, 155, 229, 152, 147, 230, 186, 166, 229, 180, 151>>,
      <<231, 135, 164, 234, 182, 133, 227, 174, 185, 225, 182, 184, 239, 146, 139>>
   >>

DeepKeySet == {DeepKeys[j] : j \in 1..Len(DeepKeys)}

\* hashKey(k) for the keys of the model, computed once
HashOf == [k \in KeyDomain \cup WideKeys \cup DeepKeySet |-> hashKey(k)]

(***************************************************************************)
(* The tree                                                                *)
(***************************************************************************)
ChildIndex == 0..(childCount - 1)

\* the address of the canonical empty node
nilMap == 1

\* var nilMap = &tree{} followed by init(): the zero struct whose children
\* all point at itself
NilNode ==
    [count |-> 0, hash |-> Zero64, key |-> EmptyKey, value |-> NilValue,
     children |-> [i \in ChildIndex |-> nilMap]]

InitHeap == <<NilNode>>

\* NewMap allocates a new, persistent map
NewMap == nilMap

IsNil(t) == t = nilMap

\* clone returns an exact duplicate of a tree node: the heap with the copy
\* appended, and the copy's address
clone(h, t) == [heap |-> Append(h, h[t]), ref |-> Len(h) + 1]

Size(h, t) == h[t].count

RECURSIVE SumSizes(_, _, _)
\* the loop of recalculateCount over children[j..]
SumSizes(h, m, j) ==
    IF j >= childCount THEN 0
    ELSE Size(h, h[m].children[j]) + SumSizes(h, m, j + 1)

\* recalculateCount with a slip: the node does not count itself
recalculateCount_NoSelf(h, m) == [h EXCEPT ![m].count = SumSizes(h, m, 0)]

\* modifies a map by recalculating its key count based on the counts of its
\* subtrees
recalculateCount(h, m) == [h EXCEPT ![m].count = SumSizes(h, m, 0) + 1]

\* isLeaf with a slip: every node that holds an entry is taken for a leaf
isLeaf_AnyEntry(h, t) == Size(h, t) >= 1

\* isLeaf returns true if this is a leaf node
isLeaf(h, t) == Size(h, t) = 1

RECURSIVE setLowLevel(_, _, _, _, _, _)

\* setLowLevel with a slip: a key that is already there is left as it is
setLowLevel_KeepsOldValue(h, self, partialHash, hash, key, value) ==
    IF IsNil(self)
    THEN LET c == clone(h, self)
             m == c.ref
         IN  [heap |-> [c.heap EXCEPT ![m].count = 1, ![m].hash = hash,
                                      ![m].key = key, ![m].value = value],
              ref |-> m]
    ELSE IF hash # h[self].hash
    THEN LET c == clone(h, self)
             m == c.ref
             i == Mod8(partialHash)
             r == setLowLevel(c.heap, c.heap[self].children[i],
                              Shr3(partialHash), hash, key, value)
             h2 == [r.heap EXCEPT ![m].children[i] = r.ref]
         IN  [heap |-> recalculateCount(h2, m), ref |-> m]
    ELSE [heap |-> h, ref |-> self]

\* setLowLevel with a slip: the recursion does not shift partialHash
setLowLevel_NoShift(h, self, partialHash, hash, key, value) ==
    IF IsNil(self)
    THEN LET c == clone(h, self)
             m == c.ref
         IN  [heap |-> [c.heap EXCEPT ![m].count = 1, ![m].hash = hash,
                                      ![m].key = key, ![m].value = value],
              ref |-> m]
    ELSE IF hash # h[self].hash
    THEN LET c == clone(h, self)
             m == c.ref
             i == Mod8(partialHash)
             r == setLowLevel(c.heap, c.heap[self].children[i],
                              partialHash, hash, key, value)
             h2 == [r.heap EXCEPT ![m].children[i] = r.ref]
         IN  [heap |-> recalculateCount(h2, m), ref |-> m]
    ELSE LET c == clone(h, self)
             m == c.ref
         IN  [heap |-> [c.heap EXCEPT ![m].value = value], ref |-> m]

\* setLowLevel with a slip: the value of a key that is already there is
\* written into the node itself
setLowLevel_InPlace(h, self, partialHash, hash, key, value) ==
    IF IsNil(self)
    THEN LET c == clone(h, self)
             m == c.ref
         IN  [heap |-> [c.heap EXCEPT ![m].count = 1, ![m].hash = hash,
                                      ![m].key = key, ![m].value = value],
              ref |-> m]
    ELSE IF hash # h[self].hash
    THEN LET c == clone(h, self)
             m == c.ref
             i == Mod8(partialHash)
             r == setLowLevel(c.heap, c.heap[self].children[i],
                              Shr3(partialHash), hash, key, value)
             h2 == [r.heap EXCEPT ![m].children[i] = r.ref]
         IN  [heap |-> recalculateCount(h2, m), ref |-> m]
    ELSE [heap |-> [h EXCEPT ![self].value = value], ref |-> self]

\* setLowLevel with a slip: replacing a value counts as one more entry
setLowLevel_CountsOverwrite(h, self, partialHash, hash, key, value) ==
    IF IsNil(self)
    THEN LET c == clone(h, self)
             m == c.ref
         IN  [heap |-> [c.heap EXCEPT ![m].count = 1, ![m].hash = hash,
                                      ![m].key = key, ![m].value = value],
              ref |-> m]
    ELSE IF hash # h[self].hash
    THEN LET c == clone(h, self)
             m == c.ref
             i == Mod8(partialHash)
             r == setLowLevel(c.heap, c.heap[self].children[i],
                              Shr3(partialHash), hash, key, value)
             h2 == [r.heap EXCEPT ![m].children[i] = r.ref]
         IN  [heap |-> recalculateCount(h2, m), ref |-> m]
    ELSE LET c == clone(h, self)
             m == c.ref
         IN  [heap |-> [c.heap EXCEPT ![m].value = value,
                                      ![m].count = @ + 1], ref |-> m]

\* setLowLevel with a slip: a node matches only if its key matches too, so
\* a colliding key gets an entry of its own
setLowLevel_ComparesKeys(h, self, partialHash, hash, key, value) ==
    IF IsNil(self)
    THEN LET c == clone(h, self)
             m == c.ref
         IN  [heap |-> [c.heap EXCEPT ![m].count = 1, ![m].hash = hash,
                                      ![m].key = key, ![m].value = value],
              ref |-> m]
    ELSE IF hash # h[self].hash \/ key # h[self].key
    THEN LET c == clone(h, self)
             m == c.ref
             i == Mod8(partialHash)
             r == setLowLevel(c.heap, c.heap[self].children[i],
                              Shr3(partialHash), hash, key, value)
             h2 == [r.heap EXCEPT ![m].children[i] = r.ref]
         IN  [heap |-> recalculateCount(h2, m), ref |-> m]
    ELSE LET c == clone(h, self)
             m == c.ref
         IN  [heap |-> [c.heap EXCEPT ![m].value = value], ref |-> m]

\* setLowLevel, were it to copy a child next to the path as well
setLowLevel_CopiesSibling(h, self, partialHash, hash, key, value) ==
    IF IsNil(self)
    THEN LET c == clone(h, self)
             m == c.ref
         IN  [heap |-> [c.heap EXCEPT ![m].count = 1, ![m].hash = hash,
                                      ![m].key = key, ![m].value = value],
              ref |-> m]
    ELSE IF hash # h[self].hash
    THEN LET c == clone(h, self)
             m == c.ref
             i == Mod8(partialHash)
             j == (i + 4) % childCount
             r == setLowLevel(c.heap, c.heap[self].children[i],
                              Shr3(partialHash), hash, key, value)
             h2 == [r.heap EXCEPT ![m].children[i] = r.ref]
             s == clone(h2, h2[m].children[j])
             h3 == IF IsNil(h2[m].children[j]) THEN h2
                   ELSE [s.heap EXCEPT ![m].children[j] = s.ref]
         IN  [heap |-> recalculateCount(h3, m), ref |-> m]
    ELSE LET c == clone(h, self)
             m == c.ref
         IN  [heap |-> [c.heap EXCEPT ![m].value = value], ref |-> m]

\* the heap after the call and the returned pointer
setLowLevel(h, self, partialHash, hash, key, value) ==
    IF IsNil(self)
    THEN LET c == clone(h, self)
             m == c.ref
         IN  [heap |-> [c.heap EXCEPT ![m].count = 1, ![m].hash = hash,
                                      ![m].key = key, ![m].value = value],
              ref |-> m]
    ELSE IF hash # h[self].hash
    THEN LET c == clone(h, self)
             m == c.ref
             i == Mod8(partialHash)
             r == setLowLevel(c.heap, c.heap[self].children[i],
                              Shr3(partialHash), hash, key, value)
             h2 == [r.heap EXCEPT ![m].children[i] = r.ref]
         IN  [heap |-> recalculateCount(h2, m), ref |-> m]
    ELSE LET c == clone(h, self)
             m == c.ref
         IN  [heap |-> [c.heap EXCEPT ![m].value = value], ref |-> m]

\* tree.Set
Set(h, t, key, value) ==
    LET hash == HashOf[key]
    IN  setLowLevel(h, t, hash, hash, key, value)

RECURSIVE lookupLowLevel(_, _, _, _)
lookupLowLevel(h, self, partialHash, hash) ==
    IF IsNil(self) THEN [value |-> NilValue, found |-> FALSE]
    ELSE IF hash # h[self].hash
    THEN lookupLowLevel(h, h[self].children[Mod8(partialHash)],
                        Shr3(partialHash), hash)
    ELSE [value |-> h[self].value, found |-> TRUE]

\* tree.Lookup
Lookup(h, t, key) ==
    LET hash == HashOf[key]
    IN  lookupLowLevel(h, t, hash, hash)

RECURSIVE FirstChild(_, _, _)
\* the loop of deleteLeftmost over children[j..]: the index of the first
\* child that is not nilMap, or childCount when the loop falls through
FirstChild(h, t, j) ==
    IF j >= childCount THEN childCount
    ELSE IF h[t].children[j] # nilMap THEN j
    ELSE FirstChild(h, t, j + 1)

RECURSIVE deleteLeftmost(_, _)

\* deleteLeftmost with a slip: the copy that lost the leaf keeps its count
deleteLeftmost_StaleCount(h, t) ==
    IF isLeaf(h, t)
    THEN [heap |-> h, deleted |-> t, child |-> nilMap, panic |-> FALSE]
    ELSE LET i == FirstChild(h, t, 0)
         IN  IF i = childCount
             THEN [heap |-> h, deleted |-> nilMap, child |-> nilMap,
                   panic |-> TRUE]
             ELSE LET r == deleteLeftmost(h, h[t].children[i])
                      c == clone(r.heap, t)
                      newMap == c.ref
                      h2 == [c.heap EXCEPT ![newMap].children[i] = r.child]
                  IN  IF r.panic THEN r
                      ELSE [heap |-> h2, deleted |-> r.deleted,
                            child |-> newMap, panic |-> FALSE]

\* delete the leftmost node in a tree returning the node that was deleted
\* and the tree left over after its deletion; panic is TRUE when the call
\* ends in the panic of its last line
deleteLeftmost(h, t) ==
    IF isLeaf(h, t)
    THEN [heap |-> h, deleted |-> t, child |-> nilMap, panic |-> FALSE]
    ELSE LET i == FirstChild(h, t, 0)
         IN  IF i = childCount
             THEN [heap |-> h, deleted |-> nilMap, child |-> nilMap,
                   panic |-> TRUE]
             ELSE LET r == deleteLeftmost(h, h[t].children[i])
                      c == clone(r.heap, t)
                      newMap == c.ref
                      h2 == [c.heap EXCEPT ![newMap].children[i] = r.child]
                  IN  IF r.panic THEN r
                      ELSE [heap |-> recalculateCount(h2, newMap),
                            deleted |-> r.deleted, child |-> newMap,
                            panic |-> FALSE]

RECURSIVE LargestChild(_, _, _, _, _)

\* the loop with a slip: it settles on the first child that is not nilMap
LargestChild_FirstFound(h, self, j, i, size) ==
    IF j >= childCount THEN i
    ELSE IF Size(h, h[self].children[j]) > size /\ size < 1
    THEN LargestChild(h, self, j + 1, j, Size(h, h[self].children[j]))
    ELSE LargestChild(h, self, j + 1, i, size)

\* the loop "find a node to replace us" over children[j..], entered with the
\* locals i and size
LargestChild(h, self, j, i, size) ==
    IF j >= childCount THEN i
    ELSE IF Size(h, h[self].children[j]) > size
    THEN LargestChild(h, self, j + 1, j, Size(h, h[self].children[j]))
    ELSE LargestChild(h, self, j + 1, i, size)

RECURSIVE deleteLowLevel(_, _, _, _)

\* deleteLowLevel with a slip: the node built in place of the deleted one is
\* a clone of the deleted node, not of the replacement
deleteLowLevel_ClonesSelf(h, self, partialHash, hash) ==
    IF IsNil(self)
    THEN [heap |-> h, ref |-> self, found |-> FALSE, panic |-> FALSE]
    ELSE IF hash # h[self].hash
    THEN LET i == Mod8(partialHash)
             r == deleteLowLevel(h, h[self].children[i], Shr3(partialHash), hash)
             c == clone(r.heap, self)
             newMap == c.ref
             h2 == [c.heap EXCEPT ![newMap].children[i] = r.ref]
         IN  IF r.panic THEN r
             ELSE IF ~r.found
             THEN [heap |-> r.heap, ref |-> self, found |-> FALSE,
                   panic |-> FALSE]
             ELSE [heap |-> recalculateCount(h2, newMap), ref |-> newMap,
                   found |-> TRUE, panic |-> FALSE]
    ELSE IF isLeaf(h, self)
    THEN [heap |-> h, ref |-> nilMap, found |-> TRUE, panic |-> FALSE]
    ELSE LET i == LargestChild(h, self, 0, -1, -1)
             r == deleteLeftmost(h, h[self].children[i])
             c == clone(r.heap, self)
             newMap == c.ref
             h2 == [c.heap EXCEPT ![newMap].children =
                       [j \in ChildIndex |->
                           IF j = i THEN r.child ELSE c.heap[self].children[j]]]
         IN  IF r.panic
             THEN [heap |-> r.heap, ref |-> nilMap, found |-> FALSE,
                   panic |-> TRUE]
             ELSE [heap |-> recalculateCount(h2, newMap), ref |-> newMap,
                   found |-> TRUE, panic |-> FALSE]

\* deleteLowLevel with a slip: the copy loop has no else branch, so the new
\* node keeps the children of the replacement leaf outside the donor slot
deleteLowLevel_DropsSiblings(h, self, partialHash, hash) ==
    IF IsNil(self)
    THEN [heap |-> h, ref |-> self, found |-> FALSE, panic |-> FALSE]
    ELSE IF hash # h[self].hash
    THEN LET i == Mod8(partialHash)
             r == deleteLowLevel(h, h[self].children[i], Shr3(partialHash), hash)
             c == clone(r.heap, self)
             newMap == c.ref
             h2 == [c.heap EXCEPT ![newMap].children[i] = r.ref]
         IN  IF r.panic THEN r
             ELSE IF ~r.found
             THEN [heap |-> r.heap, ref |-> self, found |-> FALSE,
                   panic |-> FALSE]
             ELSE [heap |-> recalculateCount(h2, newMap), ref |-> newMap,
                   found |-> TRUE, panic |-> FALSE]
    ELSE IF isLeaf(h, self)
    THEN [heap |-> h, ref |-> nilMap, found |-> TRUE, panic |-> FALSE]
    ELSE LET i == LargestChild(h, self, 0, -1, -1)
             r == deleteLeftmost(h, h[self].children[i])
             c == clone(r.heap, r.deleted)
             newMap == c.ref
             h2 == [c.heap EXCEPT ![newMap].children =
                       [j \in ChildIndex |->
                           IF j = i THEN r.child ELSE c.heap[r.deleted].children[j]]]
         IN  IF r.panic
             THEN [heap |-> r.heap, ref |-> nilMap, found |-> FALSE,
                   panic |-> TRUE]
             ELSE [heap |-> recalculateCount(h2, newMap), ref |-> newMap,
                   found |-> TRUE, panic |-> FALSE]

\* deleteLowLevel with a slip: the path is copied whether or not the key was
\* found below
deleteLowLevel_AlwaysCopies(h, self, partialHash, hash) ==
    IF IsNil(self)
    THEN [heap |-> h, ref |-> self, found |-> FALSE, panic |-> FALSE]
    ELSE IF hash # h[self].hash
    THEN LET i == Mod8(partialHash)
             r == deleteLowLevel(h, h[self].children[i], Shr3(partialHash), hash)
             c == clone(r.heap, self)
             newMap == c.ref
             h2 == [c.heap EXCEPT ![newMap].children[i] = r.ref]
         IN  IF r.panic THEN r
             ELSE [heap |-> recalculateCount(h2, newMap), ref |-> newMap,
                   found |-> r.found, panic |-> FALSE]
    ELSE IF isLeaf(h, self)
    THEN [heap |-> h, ref |-> nilMap, found |-> TRUE, panic |-> FALSE]
    ELSE LET i == LargestChild(h, self, 0, -1, -1)
             r == deleteLeftmost(h, h[self].children[i])
             c == clone(r.heap, r.deleted)
             newMap == c.ref
             h2 == [c.heap EXCEPT ![newMap].children =
                       [j \in ChildIndex |->
                           IF j = i THEN r.child ELSE c.heap[self].children[j]]]
         IN  IF r.panic
             THEN [heap |-> r.heap, ref |-> nilMap, found |-> FALSE,
                   panic |-> TRUE]
             ELSE [heap |-> recalculateCount(h2, newMap), ref |-> newMap,
                   found |-> TRUE, panic |-> FALSE]

\* deleteLowLevel with a slip: a deleted leaf is replaced by a fresh empty
\* node, not by nilMap itself
deleteLowLevel_EmptyNode(h, self, partialHash, hash) ==
    IF IsNil(self)
    THEN [heap |-> h, ref |-> self, found |-> FALSE, panic |-> FALSE]
    ELSE IF hash # h[self].hash
    THEN LET i == Mod8(partialHash)
             r == deleteLowLevel(h, h[self].children[i], Shr3(partialHash), hash)
             c == clone(r.heap, self)
             newMap == c.ref
             h2 == [c.heap EXCEPT ![newMap].children[i] = r.ref]
         IN  IF r.panic THEN r
             ELSE IF ~r.found
             THEN [heap |-> r.heap, ref |-> self, found |-> FALSE,
                   panic |-> FALSE]
             ELSE [heap |-> recalculateCount(h2, newMap), ref |-> newMap,
                   found |-> TRUE, panic |-> FALSE]
    ELSE IF isLeaf(h, self)
    THEN [heap |-> clone(h, nilMap).heap, ref |-> clone(h, nilMap).ref,
          found |-> TRUE, panic |-> FALSE]
    ELSE LET i == LargestChild(h, self, 0, -1, -1)
             r == deleteLeftmost(h, h[self].children[i])
             c == clone(r.heap, r.deleted)
             newMap == c.ref
             h2 == [c.heap EXCEPT ![newMap].children =
                       [j \in ChildIndex |->
                           IF j = i THEN r.child ELSE c.heap[self].children[j]]]
         IN  IF r.panic
             THEN [heap |-> r.heap, ref |-> nilMap, found |-> FALSE,
                   panic |-> TRUE]
             ELSE [heap |-> recalculateCount(h2, newMap), ref |-> newMap,
                   found |-> TRUE, panic |-> FALSE]

\* deleteLowLevel with a slip: the copy of an ancestor keeps its count
deleteLowLevel_StaleCount(h, self, partialHash, hash) ==
    IF IsNil(self)
    THEN [heap |-> h, ref |-> self, found |-> FALSE, panic |-> FALSE]
    ELSE IF hash # h[self].hash
    THEN LET i == Mod8(partialHash)
             r == deleteLowLevel(h, h[self].children[i], Shr3(partialHash), hash)
             c == clone(r.heap, self)
             newMap == c.ref
             h2 == [c.heap EXCEPT ![newMap].children[i] = r.ref]
         IN  IF r.panic THEN r
             ELSE IF ~r.found
             THEN [heap |-> r.heap, ref |-> self, found |-> FALSE,
                   panic |-> FALSE]
             ELSE [heap |-> h2, ref |-> newMap, found |-> TRUE,
                   panic |-> FALSE]
    ELSE IF isLeaf(h, self)
    THEN [heap |-> h, ref |-> nilMap, found |-> TRUE, panic |-> FALSE]
    ELSE LET i == LargestChild(h, self, 0, -1, -1)
             r == deleteLeftmost(h, h[self].children[i])
             c == clone(r.heap, r.deleted)
             newMap == c.ref
             h2 == [c.heap EXCEPT ![newMap].children =
                       [j \in ChildIndex |->
                           IF j = i THEN r.child ELSE c.heap[self].children[j]]]
         IN  IF r.panic
             THEN [heap |-> r.heap, ref |-> nilMap, found |-> FALSE,
                   panic |-> TRUE]
             ELSE [heap |-> recalculateCount(h2, newMap), ref |-> newMap,
                   found |-> TRUE, panic |-> FALSE]

\* the heap after the call, the returned pointer and flag; panic is TRUE when
\* the call ends in the panic of deleteLeftmost
deleteLowLevel(h, self, partialHash, hash) ==
    IF IsNil(self)
    THEN [heap |-> h, ref |-> self, found |-> FALSE, panic |-> FALSE]
    ELSE IF hash # h[self].hash
    THEN LET i == Mod8(partialHash)
             r == deleteLowLevel(h, h[self].children[i], Shr3(partialHash), hash)
             c == clone(r.heap, self)
             newMap == c.ref
             h2 == [c.heap EXCEPT ![newMap].children[i] = r.ref]
         IN  IF r.panic THEN r
             ELSE IF ~r.found
             THEN [heap |-> r.heap, ref |-> self, found |-> FALSE,
                   panic |-> FALSE]
             ELSE [heap |-> recalculateCount(h2, newMap), ref |-> newMap,
                   found |-> TRUE, panic |-> FALSE]
    ELSE IF isLeaf(h, self)
    THEN [heap |-> h, ref |-> nilMap, found |-> TRUE, panic |-> FALSE]
    ELSE LET i == LargestChild(h, self, 0, -1, -1)
             r == deleteLeftmost(h, h[self].children[i])
             c == clone(r.heap, r.deleted)
             newMap == c.ref
             h2 == [c.heap EXCEPT ![newMap].children =
                       [j \in ChildIndex |->
                           IF j = i THEN r.child ELSE c.heap[self].children[j]]]
         IN  IF r.panic
             THEN [heap |-> r.heap, ref |-> nilMap, found |-> FALSE,
                   panic |-> TRUE]
             ELSE [heap |-> recalculateCount(h2, newMap), ref |-> newMap,
                   found |-> TRUE, panic |-> FALSE]

\* tree.Delete
Delete(h, t, key) ==
    LET hash == HashOf[key]
    IN  deleteLowLevel(h, t, hash, hash)

RECURSIVE ForEach(_, _)
RECURSIVE ForEachChildren(_, _, _)

\* the loop of ForEach with a slip: it ends after the first child it visits
ForEachChildren_FirstOnly(h, t, j) ==
    IF j >= childCount THEN <<>>
    ELSE IF h[t].children[j] # nilMap THEN ForEach(h, h[t].children[j])
    ELSE ForEachChildren(h, t, j + 1)

\* the calls f(key, val) that tree.ForEach makes, in order
ForEach(h, t) ==
    IF IsNil(t) THEN <<>>
    ELSE <<[key |-> h[t].key, val |-> h[t].value]>> \o ForEachChildren(h, t, 0)

\* the loop of ForEach over children[j..]
ForEachChildren(h, t, j) ==
    IF j >= childCount THEN <<>>
    ELSE (IF h[t].children[j] # nilMap THEN ForEach(h, h[t].children[j])
          ELSE <<>>) \o ForEachChildren(h, t, j + 1)

\* tree.Keys: the slice made with t.Size() zero strings and filled by the
\* callback; panic is TRUE when the callback indexes past its end
Keys(h, t) ==
    LET calls == ForEach(h, t)
        n == Size(h, t)
    IN  [keys |-> [i \in 1..n |-> IF i <= Len(calls) THEN calls[i].key
                                  ELSE EmptyKey],
         panic |-> Len(calls) > n]

(***************************************************************************)
(* The stores of a call of Set or Delete, in program order.  A store       *)
(* writes one field of one node; clone allocates a node and copies a       *)
(* struct into it.                                                         *)
(***************************************************************************)
\* var m tree; m = *t in clone: the new node dst takes the fields of src
CloneTo(src, dst) ==
    [op |-> "clone", node |-> dst, src |-> src, field |-> "", idx |-> 0,
     val |-> 0]

\* node.field = val
StoreTo(node, field, val) ==
    [op |-> "store", node |-> node, src |-> nilMap, field |-> field, idx |-> 0,
     val |-> val]

\* node.children[idx] = val
StoreChild(node, idx, val) ==
    [op |-> "store", node |-> node, src |-> nilMap, field |-> "children",
     idx |-> idx, val |-> val]

\* the heap after the store e
Perform(h, e) ==
    IF e.op = "clone" THEN Append(h, h[e.src])
    ELSE IF e.field = "count" THEN [h EXCEPT ![e.node].count = e.val]
    ELSE IF e.field = "hash" THEN [h EXCEPT ![e.node].hash = e.val]
    ELSE IF e.field = "key" THEN [h EXCEPT ![e.node].key = e.val]
    ELSE IF e.field = "value" THEN [h EXCEPT ![e.node].value = e.val]
    ELSE [h EXCEPT ![e.node].children[e.idx] = e.val]

RECURSIVE PerformAll(_, _, _)
\* the heap after the stores s[i..]
PerformAll(h, s, i) ==
    IF i > Len(s) THEN h ELSE PerformAll(Perform(h, s[i]), s, i + 1)

\* the store of recalculateCount(m)
recalculateCountStores(h, m) ==
    <<StoreTo(m, "count", recalculateCount(h, m)[m].count)>>

RECURSIVE setLowLevelStores(_, _, _, _, _, _)

\* the stores of setLowLevel with a slip: the value of a key that is there
\* is written into the node of the receiver
setLowLevelStores_InPlace(h, self, partialHash, hash, key, value) ==
    LET m == Len(h) + 1
        c == <<CloneTo(self, m)>>
    IN  IF IsNil(self)
        THEN [ref |-> m,
              stores |-> c \o <<StoreTo(m, "count", 1), StoreTo(m, "hash", hash),
                                StoreTo(m, "key", key),
                                StoreTo(m, "value", value)>>]
        ELSE IF hash # h[self].hash
        THEN LET i == Mod8(partialHash)
                 h1 == PerformAll(h, c, 1)
                 r == setLowLevelStores(h1, h1[self].children[i],
                                        Shr3(partialHash), hash, key, value)
                 s == r.stores \o <<StoreChild(m, i, r.ref)>>
                 h2 == PerformAll(h1, s, 1)
             IN  [ref |-> m,
                  stores |-> c \o s \o recalculateCountStores(h2, m)]
        ELSE [ref |-> self, stores |-> <<StoreTo(self, "value", value)>>]

\* the stores of setLowLevel and the pointer it returns
setLowLevelStores(h, self, partialHash, hash, key, value) ==
    LET m == Len(h) + 1
        c == <<CloneTo(self, m)>>
    IN  IF IsNil(self)
        THEN [ref |-> m,
              stores |-> c \o <<StoreTo(m, "count", 1), StoreTo(m, "hash", hash),
                                StoreTo(m, "key", key),
                                StoreTo(m, "value", value)>>]
        ELSE IF hash # h[self].hash
        THEN LET i == Mod8(partialHash)
                 h1 == PerformAll(h, c, 1)
                 r == setLowLevelStores(h1, h1[self].children[i],
                                        Shr3(partialHash), hash, key, value)
                 s == r.stores \o <<StoreChild(m, i, r.ref)>>
                 h2 == PerformAll(h1, s, 1)
             IN  [ref |-> m,
                  stores |-> c \o s \o recalculateCountStores(h2, m)]
        ELSE [ref |-> m, stores |-> c \o <<StoreTo(m, "value", value)>>]

RECURSIVE deleteLeftmostStores(_, _)
\* the stores of deleteLeftmost, the node it deletes and the tree left over
deleteLeftmostStores(h, t) ==
    IF isLeaf(h, t)
    THEN [deleted |-> t, child |-> nilMap, panic |-> FALSE, stores |-> <<>>]
    ELSE LET i == FirstChild(h, t, 0)
         IN  IF i = childCount
             THEN [deleted |-> nilMap, child |-> nilMap, panic |-> TRUE,
                   stores |-> <<>>]
             ELSE LET r == deleteLeftmostStores(h, h[t].children[i])
                      h1 == PerformAll(h, r.stores, 1)
                      newMap == Len(h1) + 1
                      s == <<CloneTo(t, newMap), StoreChild(newMap, i, r.child)>>
                      h2 == PerformAll(h1, s, 1)
                  IN  IF r.panic THEN r
                      ELSE [deleted |-> r.deleted, child |-> newMap,
                            panic |-> FALSE,
                            stores |-> r.stores \o s
                                           \o recalculateCountStores(h2, newMap)]

RECURSIVE deleteLowLevelStores(_, _, _, _)
\* the stores of deleteLowLevel and what it returns
deleteLowLevelStores(h, self, partialHash, hash) ==
    IF IsNil(self)
    THEN [ref |-> self, found |-> FALSE, panic |-> FALSE, stores |-> <<>>]
    ELSE IF hash # h[self].hash
    THEN LET i == Mod8(partialHash)
             r == deleteLowLevelStores(h, h[self].children[i],
                                       Shr3(partialHash), hash)
             h1 == PerformAll(h, r.stores, 1)
             newMap == Len(h1) + 1
             s == <<CloneTo(self, newMap), StoreChild(newMap, i, r.ref)>>
             h2 == PerformAll(h1, s, 1)
         IN  IF r.panic THEN r
             ELSE IF ~r.found
             THEN [ref |-> self, found |-> FALSE, panic |-> FALSE,
                   stores |-> r.stores]
             ELSE [ref |-> newMap, found |-> TRUE, panic |-> FALSE,
                   stores |-> r.stores \o s
                                  \o recalculateCountStores(h2, newMap)]
    ELSE IF isLeaf(h, self)
    THEN [ref |-> nilMap, found |-> TRUE, panic |-> FALSE, stores |-> <<>>]
    ELSE LET i == LargestChild(h, self, 0, -1, -1)
             r == deleteLeftmostStores(h, h[self].children[i])
             h1 == PerformAll(h, r.stores, 1)
             newMap == Len(h1) + 1
             s == <<CloneTo(r.deleted, newMap)>>
                      \o [j \in 1..childCount |->
                             StoreChild(newMap, j - 1,
                                        IF j - 1 = i THEN r.child
                                        ELSE h1[self].children[j - 1])]
             h2 == PerformAll(h1, s, 1)
         IN  IF r.panic
             THEN [ref |-> nilMap, found |-> FALSE, panic |-> TRUE,
                   stores |-> r.stores]
             ELSE [ref |-> newMap, found |-> TRUE, panic |-> FALSE,
                   stores |-> r.stores \o s
                                  \o recalculateCountStores(h2, newMap)]

(***************************************************************************)
(* The program's state and the calls of its client                         *)
(*                                                                         *)
(* heap      the tree structs allocated so far; heap[nilMap] is the empty  *)
(*           node                                                          *)
(* versions  the Map handles the client holds, oldest first, each with the *)
(*           call that returned it: versions[from].ref.op(key, value)      *)
(* panicked  a call ended in the panic of deleteLeftmost                   *)
(* writer    the call of Set or Delete that a goroutine is in, with the    *)
(*           stores it has yet to make                                     *)
(* reader    the call of Lookup, Size, ForEach or Keys that another        *)
(*           goroutine is in, with its locals                              *)
(*                                                                         *)
(* Lookup, Size, IsNil, ForEach and Keys write nothing; they are the       *)
(* operators above, applied to the handles of a state.  A call of Set or   *)
(* Delete that no other goroutine runs next to is one step.                *)
(***************************************************************************)
\* no call of Set or Delete is under way
NoWrite ==
    [busy |-> FALSE, op |-> "", key |-> EmptyKey, value |-> NilValue,
     stores |-> <<>>, pc |-> 0, base |-> 0, ref |-> nilMap, panic |-> FALSE]

\* no call of a reader is under way
NoRead ==
    [state |-> "idle", op |-> "", ref |-> nilMap, born |-> 0, key |-> EmptyKey,
     pc |-> "", node |-> nilMap, partialHash |-> Zero64, held |-> EmptyKey,
     stack |-> <<>>, size |-> 0, out |-> <<>>, result |-> <<>>,
     alone |-> <<>>]

Init ==
    /\ heap = InitHeap
    /\ versions = <<[ref |-> NewMap, op |-> "NewMap", from |-> 0,
                     key |-> EmptyKey, value |-> NilValue]>>
    /\ panicked = FALSE
    /\ writer = NoWrite
    /\ reader = NoRead

\* m.Set(key, value) on the handle versions[i]
SetOn(i, key, value) ==
    LET r == Set(heap, versions[i].ref, key, value)
    IN  /\ ~panicked
        /\ heap' = r.heap
        /\ versions' = Append(versions, [ref |-> r.ref, op |-> "Set", from |-> i,
                                         key |-> key, value |-> value])
        /\ UNCHANGED <<panicked, writer, reader>>

\* m.Delete(key) on the handle versions[i]
DeleteOn(i, key) ==
    LET r == Delete(heap, versions[i].ref, key)
    IN  /\ ~panicked
        /\ heap' = r.heap
        /\ panicked' = r.panic
        /\ versions' = IF r.panic THEN versions
                       ELSE Append(versions, [ref |-> r.ref, op |-> "Delete",
                                              from |-> i, key |-> key,
                                              value |-> NilValue])
        /\ UNCHANGED <<writer, reader>>

\* the client keeps one map variable: m = m.Set(key, value)
SetStep ==
    /\ Len(versions) <= MaxOps
    /\ \E key \in KeyDomain, value \in Values :
           SetOn(Len(versions), key, value)

\* m = m.Delete(key)
DeleteStep ==
    /\ Len(versions) <= MaxOps
    /\ \E key \in KeyDomain : DeleteOn(Len(versions), key)

Next == SetStep \/ DeleteStep

Spec == Init /\ [][Next]_vars

\* the client calls Set on any handle it holds
SetFork ==
    /\ Len(versions) <= MaxForkOps
    /\ \E i \in 1..Len(versions), key \in KeyDomain, value \in Values :
           SetOn(i, key, value)

\* the client calls Delete on any handle it holds
DeleteFork ==
    /\ Len(versions) <= MaxForkOps
    /\ \E i \in 1..Len(versions), key \in KeyDomain : DeleteOn(i, key)

NextFork == SetFork \/ DeleteFork

SpecFork == Init /\ [][NextFork]_vars

\* m = m.Set(key, 1) on a key of the wider trees that m lacks
SetWide ==
    /\ Len(versions) <= MaxWideOps
    /\ \E key \in WideKeys :
           /\ ~Lookup(heap, versions[Len(versions)].ref, key).found
           /\ SetOn(Len(versions), key, 1)

\* m = m.Delete(key) on a key of the wider trees that m holds
DeleteWide ==
    /\ Len(versions) <= MaxWideOps
    /\ \E key \in WideKeys :
           /\ Lookup(heap, versions[Len(versions)].ref, key).found
           /\ DeleteOn(Len(versions), key)

NextWide == SetWide \/ DeleteWide

SpecWide == Init /\ [][NextWide]_vars

\* the calls of op in the history
CallsOf(op) == {i \in 1..Len(versions) : versions[i].op = op}

\* m = m.Set(key, 1), the client taking the keys of the deep trees in turn
SetDeep ==
    /\ Len(versions) <= MaxDeepOps
    /\ LET j == (Cardinality(CallsOf("Set")) % Len(DeepKeys)) + 1
       IN  SetOn(Len(versions), DeepKeys[j], 1)

\* the keys of the deep trees that the client deletes: those stored at the
\* root, halfway down and at depth 22 when all are there
DeepDeleted == {DeepKeys[1], DeepKeys[12], DeepKeys[23]}

\* m = m.Delete(key) on a key of the deep trees
DeleteDeep ==
    /\ Len(versions) <= MaxDeepOps
    /\ Cardinality(CallsOf("Delete")) < MaxDeepDeletes
    /\ \E key \in DeepDeleted : DeleteOn(Len(versions), key)

NextDeep == SetDeep \/ DeleteDeep

SpecDeep == Init /\ [][NextDeep]_vars

(***************************************************************************)
(* A reader next to a writer.  One goroutine calls Set and Delete on the   *)
(* latest handle, a step being one store; another makes one call of        *)
(* Lookup, Size, ForEach or Keys on a handle it holds, a step being the    *)
(* read of one field of one node.  Calls made before the reader enters are *)
(* single steps, and nothing is followed once the reader has returned.     *)
(***************************************************************************)
\* the keys of these calls: "\xff" and "u", which share their first digit
RaceKeys == {<<255>>, <<117>>}

\* m = m.Set(key, value) before the reader enters
SetQuiet ==
    /\ reader.state = "idle"
    /\ ~writer.busy
    /\ Len(versions) <= MaxRaceOps
    /\ \E key \in RaceKeys, value \in Values : SetOn(Len(versions), key, value)

\* m = m.Delete(key) before the reader enters
DeleteQuiet ==
    /\ reader.state = "idle"
    /\ ~writer.busy
    /\ Len(versions) <= MaxRaceOps
    /\ \E key \in RaceKeys : DeleteOn(Len(versions), key)

\* the writer enters m.Set(key, value)
SetBegin ==
    /\ reader.state = "run"
    /\ ~writer.busy
    /\ ~panicked
    /\ Len(versions) <= MaxRaceOps
    /\ \E key \in RaceKeys, value \in Values :
           LET hash == HashOf[key]
               r == setLowLevelStores(heap, versions[Len(versions)].ref, hash,
                                      hash, key, value)
           IN  writer' = [busy |-> TRUE, op |-> "Set", key |-> key,
                          value |-> value, stores |-> r.stores, pc |-> 1,
                          base |-> Len(heap), ref |-> r.ref, panic |-> FALSE]
    /\ UNCHANGED <<heap, versions, panicked, reader>>

\* the writer enters m.Delete(key)
DeleteBegin ==
    /\ reader.state = "run"
    /\ ~writer.busy
    /\ ~panicked
    /\ Len(versions) <= MaxRaceOps
    /\ \E key \in RaceKeys :
           LET hash == HashOf[key]
               r == deleteLowLevelStores(heap, versions[Len(versions)].ref,
                                         hash, hash)
           IN  writer' = [busy |-> TRUE, op |-> "Delete", key |-> key,
                          value |-> NilValue, stores |-> r.stores, pc |-> 1,
                          base |-> Len(heap), ref |-> r.ref, panic |-> r.panic]
    /\ UNCHANGED <<heap, versions, panicked, reader>>

\* the writer makes its next store
WriteStep ==
    /\ writer.busy
    /\ writer.pc <= Len(writer.stores)
    /\ reader.state # "done"
    /\ heap' = Perform(heap, writer.stores[writer.pc])
    /\ writer' = [writer EXCEPT !.pc = @ + 1]
    /\ UNCHANGED <<versions, panicked, reader>>

\* the call of the writer returns its handle, or panics
WriteReturn ==
    /\ writer.busy
    /\ writer.pc > Len(writer.stores)
    /\ reader.state # "done"
    /\ versions' = IF writer.panic THEN versions
                   ELSE Append(versions, [ref |-> writer.ref, op |-> writer.op,
                                          from |-> Len(versions),
                                          key |-> writer.key,
                                          value |-> writer.value])
    /\ panicked' = writer.panic
    /\ writer' = NoWrite
    /\ UNCHANGED <<heap, reader>>

\* the call of the reader r returns result
Finished(r, result) == [r EXCEPT !.state = "done", !.pc = "", !.result = result]

\* lookupLowLevel is entered on node: IsNil compares pointers, it reads no
\* field
LookupEnter(r, node, partialHash) ==
    IF IsNil(node) THEN Finished(r, [value |-> NilValue, found |-> FALSE])
    ELSE [r EXCEPT !.pc = "hash", !.node = node, !.partialHash = partialHash]

\* lookupLowLevel reads self.hash, then self.children[i] or self.value
LookupStep(h, r) ==
    IF r.pc = "hash"
    THEN [r EXCEPT !.pc = IF HashOf[r.key] # h[r.node].hash THEN "child"
                          ELSE "value"]
    ELSE IF r.pc = "child"
    THEN LookupEnter(r, h[r.node].children[Mod8(r.partialHash)],
                     Shr3(r.partialHash))
    ELSE Finished(r, [value |-> h[r.node].value, found |-> TRUE])

\* what Keys returns: the slice of size strings as its callback has filled it
KeysResult(r, panic) ==
    [keys |-> [i \in 1..r.size |-> IF i <= Len(r.out) THEN r.out[i].key
                                   ELSE EmptyKey],
     panic |-> panic]

\* the outermost ForEach returns
ForEachReturn(r) ==
    Finished(r, IF r.op = "Keys" THEN KeysResult(r, FALSE) ELSE r.out)

\* ForEach is entered on node
ForEachEnter(r, node) ==
    IF IsNil(node) THEN ForEachReturn(r)
    ELSE [r EXCEPT !.pc = "key", !.node = node]

RECURSIVE FirstFrom(_, _)
\* the first index from j on at which the array children holds no nilMap
FirstFrom(children, j) ==
    IF j >= childCount THEN childCount
    ELSE IF children[j] # nilMap THEN j
    ELSE FirstFrom(children, j + 1)

RECURSIVE ForEachResume(_)
\* the loop over the children goes on in the innermost ForEach, on the copy
\* that range took of the array
ForEachResume(r) ==
    IF r.stack = <<>> THEN ForEachReturn(r)
    ELSE LET n == Len(r.stack)
             j == FirstFrom(r.stack[n].children, r.stack[n].j)
         IN  IF j = childCount
             THEN ForEachResume([r EXCEPT !.stack = SubSeq(r.stack, 1, n - 1)])
             ELSE [r EXCEPT !.stack[n].j = j + 1, !.pc = "key",
                            !.node = r.stack[n].children[j]]

\* Keys reads t.count; ForEach reads t.key, t.value and calls f, then reads
\* t.children
ForEachStep(h, r) ==
    IF r.pc = "count"
    THEN ForEachEnter([r EXCEPT !.size = h[r.ref].count], r.ref)
    ELSE IF r.pc = "key"
    THEN [r EXCEPT !.held = h[r.node].key, !.pc = "value"]
    ELSE IF r.pc = "value"
    THEN (IF r.op = "Keys" /\ Len(r.out) >= r.size
          THEN Finished(r, KeysResult(r, TRUE))
          ELSE [r EXCEPT !.out = Append(@, [key |-> r.held,
                                            val |-> h[r.node].value]),
                         !.pc = "children"])
    ELSE ForEachResume([r EXCEPT !.stack =
                           Append(@, [children |-> h[r.node].children,
                                      j |-> 0])])

\* the reader enters a call on a handle it holds
ReadBegin ==
    /\ reader.state = "idle"
    /\ ~writer.busy
    /\ ~panicked
    /\ Len(versions) <= MaxRaceOps
    /\ \E i \in 1..Len(versions) :
           LET t == versions[i].ref
               call == [NoRead EXCEPT !.state = "run", !.ref = t,
                                      !.born = Len(versions)]
           IN  \/ \E key \in RaceKeys :
                      reader' = LookupEnter([call EXCEPT !.op = "Lookup",
                                                !.key = key,
                                                !.alone = Lookup(heap, t, key)],
                                            t, HashOf[key])
               \/ reader' = [call EXCEPT !.op = "Size", !.pc = "count",
                                         !.alone = Size(heap, t)]
               \/ reader' = ForEachEnter([call EXCEPT !.op = "ForEach",
                                             !.alone = ForEach(heap, t)], t)
               \/ reader' = [call EXCEPT !.op = "Keys", !.pc = "count",
                                         !.alone = Keys(heap, t)]
    /\ UNCHANGED <<heap, versions, panicked, writer>>

\* the reader reads a field
ReadStep ==
    /\ reader.state = "run"
    /\ reader' = IF reader.op = "Lookup" THEN LookupStep(heap, reader)
                 ELSE IF reader.op = "Size"
                 THEN Finished(reader, heap[reader.ref].count)
                 ELSE ForEachStep(heap, reader)
    /\ UNCHANGED <<heap, versions, panicked, writer>>

NextRace ==
    \/ SetQuiet
    \/ DeleteQuiet
    \/ ReadBegin
    \/ ReadStep
    \/ SetBegin
    \/ DeleteBegin
    \/ WriteStep
    \/ WriteReturn

SpecRace == Init /\ [][NextRace]_vars

(***************************************************************************)
(* Notation of the properties                                              *)
(***************************************************************************)
\* the handle returned by the latest call, with that call
Last == versions[Len(versions)]

\* the receiver of the call that returned versions[i]
Receiver(i) == versions[versions[i].from].ref

\* the step is a call that returned a handle
Returned == Len(versions') = Len(versions) + 1

\* the keys of the slice that Keys returns, as a set
KeySetOf(h, t) ==
    LET keys == Keys(h, t).keys
    IN  {keys[n] : n \in 1..Len(keys)}

\* what a client can observe of a handle
Observe(h, t) ==
    [lookup |-> [k \in KeyDomain |-> Lookup(h, t, k)],
     size |-> Size(h, t),
     keys |-> KeySetOf(h, t),
     isNil |-> IsNil(t)]

RECURSIVE MatchedNode(_, _, _, _)
\* the node at which the routed descent for hash stops: the node storing
\* hash, or nilMap
MatchedNode(h, self, partialHash, hash) ==
    IF IsNil(self) \/ hash = h[self].hash THEN self
    ELSE MatchedNode(h, h[self].children[Mod8(partialHash)], Shr3(partialHash),
                     hash)

\* Delete(key) on t replaces a node that has children by a promoted entry
Promotes(h, t, key) ==
    LET n == MatchedNode(h, t, HashOf[key], HashOf[key])
    IN  ~IsNil(n) /\ ~isLeaf(h, n)

(***************************************************************************)
(* C1: m.Set(k, v).Lookup(k) returns (v, true), for every map m reached by *)
(* Set and Delete, every key k and value v.                                *)
(***************************************************************************)
SetThenLookup ==
    \A i \in 1..Len(versions) :
        versions[i].op = "Set" =>
            Lookup(heap, versions[i].ref, versions[i].key)
                = [value |-> versions[i].value, found |-> TRUE]

\* a Set that overwrote the value of an entry stored below the root
SetThenLookupWitness ==
    /\ Last.op = "Set"
    /\ Lookup(heap, Receiver(Len(versions)), Last.key).found
    /\ Lookup(heap, Receiver(Len(versions)), Last.key).value # Last.value
    /\ heap[Last.ref].hash # HashOf[Last.key]

(***************************************************************************)
(* C2: m.Delete(k).Lookup(k) reports not-found, whether the entry of k sat *)
(* in a leaf or in a node with children that a promoted entry replaced.    *)
(***************************************************************************)
DeleteThenLookup ==
    \A i \in 1..Len(versions) :
        versions[i].op = "Delete" =>
            ~Lookup(heap, versions[i].ref, versions[i].key).found

\* a Delete that replaced a node with children by a promoted entry
DeleteThenLookupWitness ==
    /\ Last.op = "Delete"
    /\ Promotes(heap, Receiver(Len(versions)), Last.key)
    /\ ~IsNil(Last.ref)

(***************************************************************************)
(* C3: persistence.  Whatever versions are derived, directly or            *)
(* transitively, from a version A, the Lookup result of every key, the     *)
(* Size and the key set of A stay what they were.                          *)
(***************************************************************************)
Persistence ==
    [][\A i \in 1..Len(versions) :
           Observe(heap', versions[i].ref) = Observe(heap, versions[i].ref)]_vars

\* a version with an entry from which two versions were derived directly,
\* one by overwriting that entry and one by deleting it
PersistenceWitness ==
    \E a, b, c \in 1..Len(versions) :
        /\ a < b /\ b < c
        /\ versions[b].from = a /\ versions[c].from = a
        /\ versions[b].op = "Set" /\ versions[c].op = "Delete"
        /\ versions[b].key = versions[c].key
        /\ Lookup(heap, versions[a].ref, versions[b].key).found
        /\ Lookup(heap, versions[a].ref, versions[b].key).value
               # versions[b].value

(***************************************************************************)
(* C4: Delete(k) leaves the Lookup result of every key j with              *)
(* hash(j) # hash(k) as it was in the receiver, also when the deletion     *)
(* promotes the leftmost leaf of the donor subtree.                        *)
(***************************************************************************)
DeleteKeepsOthers ==
    [][(Returned /\ Last'.op = "Delete") =>
          \A j \in KeyDomain :
              HashOf[j] # HashOf[Last'.key] =>
                  Lookup(heap', Last'.ref, j)
                      = Lookup(heap, versions[Last'.from].ref, j)]_vars

\* a Delete that promoted an entry in a map of three entries
DeleteKeepsOthersWitness ==
    /\ Last.op = "Delete"
    /\ Promotes(heap, Receiver(Len(versions)), Last.key)
    /\ Size(heap, Last.ref) = 2

(***************************************************************************)
(* C5: for keys k1, k2 with different hashes, m.Set(k1, v1).Set(k2, v2)    *)
(* has Lookup(k1) = (v1, true) and Lookup(k2) = (v2, true), and so has     *)
(* m.Set(k2, v2).Set(k1, v1).                                              *)
(***************************************************************************)
TwoSetsCommute ==
    \A i \in 1..Len(versions) :
        LET j == versions[i].from
            k1 == versions[j].key
            v1 == versions[j].value
            k2 == versions[i].key
            v2 == versions[i].value
            m == Receiver(j)
            a == Set(heap, m, k2, v2)
            b == Set(a.heap, a.ref, k1, v1)
        IN  (/\ versions[i].op = "Set"
             /\ versions[j].op = "Set"
             /\ HashOf[k1] # HashOf[k2])
            => /\ Lookup(heap, versions[i].ref, k1) = [value |-> v1, found |-> TRUE]
               /\ Lookup(heap, versions[i].ref, k2) = [value |-> v2, found |-> TRUE]
               /\ Lookup(b.heap, b.ref, k1) = [value |-> v1, found |-> TRUE]
               /\ Lookup(b.heap, b.ref, k2) = [value |-> v2, found |-> TRUE]

\* two Sets in a row, of keys with different hashes routed to the same child
\* of the root, on a map that is not empty
TwoSetsCommuteWitness ==
    /\ Last.op = "Set"
    /\ versions[Last.from].op = "Set"
    /\ HashOf[Last.key] # HashOf[versions[Last.from].key]
    /\ Mod8(HashOf[Last.key]) = Mod8(HashOf[versions[Last.from].key])
    /\ ~IsNil(Receiver(Last.from))

(***************************************************************************)
(* The history of a handle                                                 *)
(***************************************************************************)
RECURSIVE OnlySets(_)
\* versions[i] was reached from NewMap by Set calls alone
OnlySets(i) ==
    \/ versions[i].op = "NewMap"
    \/ versions[i].op = "Set" /\ OnlySets(versions[i].from)

RECURSIVE CallKeys(_)
\* the keys of the calls that lead from NewMap to versions[i], in order
CallKeys(i) ==
    IF versions[i].op = "NewMap" THEN <<>>
    ELSE Append(CallKeys(versions[i].from), versions[i].key)

\* no two elements of the tuple s are related by Same
Pairwise(s, Same(_, _)) ==
    \A a, b \in 1..Len(s) : a # b => ~Same(s[a], s[b])

SameKey(k1, k2) == k1 = k2

SameHash(k1, k2) == HashOf[k1] = HashOf[k2]

RECURSIVE Live(_)
\* the keys set and not since deleted on the way to versions[i]
Live(i) ==
    IF versions[i].op = "NewMap" THEN {}
    ELSE IF versions[i].op = "Set"
    THEN Live(versions[i].from) \cup {versions[i].key}
    ELSE Live(versions[i].from) \ {versions[i].key}

RECURSIVE LiveHashes(_)
\* the hashes set and not since deleted on the way to versions[i]
LiveHashes(i) ==
    IF versions[i].op = "NewMap" THEN {}
    ELSE IF versions[i].op = "Set"
    THEN LiveHashes(versions[i].from) \cup {HashOf[versions[i].key]}
    ELSE LiveHashes(versions[i].from) \ {HashOf[versions[i].key]}

(***************************************************************************)
(* C6, as stated: N Set calls on N distinct keys, from the empty map and   *)
(* with no deletion, give Size() = N; Set on a key present in m changes    *)
(* the value and leaves Size() unchanged, Set on an absent key adds 1.     *)
(***************************************************************************)
SizeUnderSetAsStated ==
    \A i \in 1..Len(versions) :
        /\ (OnlySets(i) /\ Pairwise(CallKeys(i), SameKey))
               => Size(heap, versions[i].ref) = Len(CallKeys(i))
        /\ versions[i].op = "Set"
               => Size(heap, versions[i].ref)
                      = Size(heap, Receiver(i))
                        + (IF versions[i].key \in KeySetOf(heap, Receiver(i))
                           THEN 0 ELSE 1)

(***************************************************************************)
(* C6, amended: N Set calls on N keys with pairwise different hashes, from *)
(* the empty map and with no deletion, give Size() = N; Set on a key for   *)
(* which Lookup finds an entry in m sets the value and leaves Size()       *)
(* unchanged, Set on any other key increases Size() by exactly 1.          *)
(***************************************************************************)
SizeUnderSet ==
    /\ [](\A i \in 1..Len(versions) :
              (OnlySets(i) /\ Pairwise(CallKeys(i), SameHash))
                  => Size(heap, versions[i].ref) = Len(CallKeys(i)))
    /\ [][(Returned /\ Last'.op = "Set") =>
              /\ Size(heap', Last'.ref)
                     = Size(heap, versions[Last'.from].ref)
                       + (IF Lookup(heap, versions[Last'.from].ref,
                                    Last'.key).found
                          THEN 0 ELSE 1)
              /\ Lookup(heap', Last'.ref, Last'.key).value = Last'.value]_vars

\* three Sets of keys with three different hashes from the empty map, then a
\* Set that overwrites an entry below the root
SizeUnderSetWitness ==
    /\ Len(versions) = 5
    /\ OnlySets(5)
    /\ Pairwise(CallKeys(4), SameHash)
    /\ Size(heap, Last.ref) = 3
    /\ heap[Last.ref].hash # HashOf[Last.key]

(***************************************************************************)
(* C7: if Lookup(k) finds an entry in m then m.Delete(k).Size() is         *)
(* m.Size() - 1, and otherwise it is m.Size().                             *)
(***************************************************************************)
SizeUnderDelete ==
    [][(Returned /\ Last'.op = "Delete") =>
          Size(heap', Last'.ref)
              = Size(heap, versions[Last'.from].ref)
                - (IF Lookup(heap, versions[Last'.from].ref, Last'.key).found
                   THEN 1 ELSE 0)]_vars

\* a Delete that promoted an entry out of a donor subtree that is no leaf
SizeUnderDeleteWitness ==
    /\ Last.op = "Delete"
    /\ Promotes(heap, Receiver(Len(versions)), Last.key)
    /\ Size(heap, Last.ref) = 2
    /\ \E j \in ChildIndex : Size(heap, heap[Last.ref].children[j]) = 1
    /\ \E j \in ChildIndex :
           Size(heap, heap[Receiver(Len(versions))].children[j]) = 2

(***************************************************************************)
(* C8, as stated: ForEach calls back exactly once per entry, so Keys() has *)
(* length Size(), no duplicate, and holds exactly the keys stored: every   *)
(* returned key is found by Lookup, and every key set and not since        *)
(* deleted is returned.                                                    *)
(***************************************************************************)
KeysCompleteAsStated ==
    \A i \in 1..Len(versions) :
        LET t == versions[i].ref
            calls == ForEach(heap, t)
            got == Keys(heap, t)
            keys == got.keys
        IN  /\ Len(calls) = Size(heap, t)
            /\ ~got.panic
            /\ Len(keys) = Size(heap, t)
            /\ Pairwise(keys, SameKey)
            /\ \A n \in 1..Len(keys) : Lookup(heap, t, keys[n]).found
            /\ {keys[n] : n \in 1..Len(keys)} = Live(i)

(***************************************************************************)
(* C8, amended: ForEach calls back exactly once per entry, so Keys() has   *)
(* length Size(), no duplicate and no two keys of one hash; every returned *)
(* key is found by Lookup and was set and not since deleted; and the       *)
(* hashes of the returned keys are exactly the hashes set and not since    *)
(* deleted (a Delete removes the entry of its key's hash).                 *)
(***************************************************************************)
KeysComplete ==
    \A i \in 1..Len(versions) :
        LET t == versions[i].ref
            calls == ForEach(heap, t)
            got == Keys(heap, t)
            keys == got.keys
        IN  /\ Len(calls) = Size(heap, t)
            /\ ~got.panic
            /\ Len(keys) = Size(heap, t)
            /\ Pairwise(keys, SameHash)
            /\ \A n \in 1..Len(keys) :
                   /\ keys[n] = calls[n].key
                   /\ Lookup(heap, t, keys[n])
                          = [value |-> calls[n].val, found |-> TRUE]
            /\ {keys[n] : n \in 1..Len(keys)} \subseteq Live(i)
            /\ {HashOf[keys[n]] : n \in 1..Len(keys)} = LiveHashes(i)

\* a map whose root has two children
KeysCompleteWitness ==
    /\ Size(heap, Last.ref) = 3
    /\ \E j1, j2 \in ChildIndex :
           /\ j1 # j2
           /\ ~IsNil(heap[Last.ref].children[j1])
           /\ ~IsNil(heap[Last.ref].children[j2])

(***************************************************************************)
(* C9: Delete of a key that Lookup does not find returns the receiver's    *)
(* own root reference and clones no node; Size and key set are the         *)
(* receiver's.                                                             *)
(***************************************************************************)
DeleteAbsentIsNoOp ==
    [][(/\ Returned
        /\ Last'.op = "Delete"
        /\ ~Lookup(heap, versions[Last'.from].ref, Last'.key).found)
       => /\ Last'.ref = versions[Last'.from].ref
          /\ heap' = heap
          /\ Size(heap', Last'.ref) = Size(heap, versions[Last'.from].ref)
          /\ KeySetOf(heap', Last'.ref)
                 = KeySetOf(heap, versions[Last'.from].ref)]_vars

\* a Delete of an absent key whose descent passed two nodes
DeleteAbsentIsNoOpWitness ==
    /\ Last.op = "Delete"
    /\ ~Lookup(heap, Receiver(Len(versions)), Last.key).found
    /\ Last.ref = Receiver(Len(versions))
    /\ LET root == Last.ref
           hash == HashOf[Last.key]
       IN  /\ ~IsNil(root)
           /\ ~IsNil(heap[root].children[Mod8(hash)])
           /\ IsNil(heap[heap[root].children[Mod8(hash)]]
                        .children[Mod8(Shr3(hash))])

(***************************************************************************)
(* C10: NewMap() is nil with Size() 0; a reachable map is nil iff its      *)
(* Size() is 0; deleting every key of a map yields nilMap itself, never    *)
(* another node of count 0.                                                *)
(***************************************************************************)
NilIffEmpty ==
    /\ IsNil(NewMap) /\ Size(heap, NewMap) = 0
    /\ \A i \in 1..Len(versions) :
           /\ IsNil(versions[i].ref) <=> Size(heap, versions[i].ref) = 0
           /\ LiveHashes(i) = {} => versions[i].ref = nilMap
    /\ \A p \in 1..Len(heap) : heap[p].count = 0 => p = nilMap

\* two entries set and both deleted again, the root first
NilIffEmptyWitness ==
    /\ Len(versions) = 5
    /\ versions[3].op = "Set" /\ Size(heap, versions[3].ref) = 2
    /\ versions[4].op = "Delete" /\ Size(heap, versions[4].ref) = 1
    /\ versions[4].key = heap[versions[3].ref].key
    /\ versions[5].op = "Delete" /\ IsNil(versions[5].ref)

(***************************************************************************)
(* C11: Set is idempotent: m.Set(k, v).Set(k, v) has the Lookup result of  *)
(* every key, the Size and the key set of m.Set(k, v).                     *)
(***************************************************************************)
SetIdempotent ==
    \A i \in 1..Len(versions) :
        LET j == versions[i].from
        IN  (/\ versions[i].op = "Set"
             /\ versions[j].op = "Set"
             /\ versions[i].key = versions[j].key
             /\ versions[i].value = versions[j].value)
            => Observe(heap, versions[i].ref) = Observe(heap, versions[j].ref)

\* the same Set twice in a row on an entry stored below the root of a map of
\* three entries
SetIdempotentWitness ==
    /\ Last.op = "Set"
    /\ versions[Last.from].op = "Set"
    /\ Last.key = versions[Last.from].key
    /\ Last.value = versions[Last.from].value
    /\ Size(heap, Last.ref) = 3
    /\ heap[Last.ref].hash # HashOf[Last.key]

(***************************************************************************)
(* C12: hash collisions share one slot.  For distinct keys k1, k2 of one   *)
(* hash, after m.Set(k1, v1).Set(k2, v2) the Size is at most that of m     *)
(* plus 1, Lookup of either key returns (v2, true), and Delete of either   *)
(* key leaves both keys not found.                                         *)
(***************************************************************************)
CollisionsShareSlot ==
    \A i \in 1..Len(versions) :
        LET j == versions[i].from
            k1 == versions[j].key
            k2 == versions[i].key
            v2 == versions[i].value
            t == versions[i].ref
        IN  (/\ versions[i].op = "Set"
             /\ versions[j].op = "Set"
             /\ k1 # k2
             /\ HashOf[k1] = HashOf[k2])
            => /\ Size(heap, t) <= Size(heap, Receiver(j)) + 1
               /\ Size(heap, t) = Size(heap, versions[j].ref)
               /\ Lookup(heap, t, k1) = [value |-> v2, found |-> TRUE]
               /\ Lookup(heap, t, k2) = [value |-> v2, found |-> TRUE]
               /\ \A k \in {k1, k2} :
                      LET d == Delete(heap, t, k)
                      IN  /\ ~d.panic
                          /\ ~Lookup(d.heap, d.ref, k1).found
                          /\ ~Lookup(d.heap, d.ref, k2).found
                          /\ Size(d.heap, d.ref) = Size(heap, t) - 1

\* two Sets in a row of distinct keys of one hash, with different values, on
\* a map in which the shared entry lies below the root
CollisionsShareSlotWitness ==
    /\ Last.op = "Set"
    /\ versions[Last.from].op = "Set"
    /\ Last.key # versions[Last.from].key
    /\ HashOf[Last.key] = HashOf[versions[Last.from].key]
    /\ Last.value # versions[Last.from].value
    /\ heap[Last.ref].hash # HashOf[Last.key]

(***************************************************************************)
(* The nodes of a map                                                      *)
(***************************************************************************)
RECURSIVE NodesOf(_, _)
\* the nodes other than nilMap that are reachable from t
NodesOf(h, t) ==
    IF IsNil(t) THEN {}
    ELSE {t} \cup UNION {NodesOf(h, h[t].children[j]) : j \in ChildIndex}

\* the children of p that are not nilMap
ChildrenOf(h, p) == {h[p].children[j] : j \in ChildIndex} \ {nilMap}

\* digit j (from 0) of a uint64; past the last digit the shifted value is 0
DigitAt(x, j) == IF j < NumDigits THEN x[j + 1] ELSE 0

RECURSIVE Routed(_, _, _)
\* every node below t stores a hash whose digits spell the child indexes
\* that lead to it from the root, path being those that lead to t
Routed(h, t, path) ==
    \/ IsNil(t)
    \/ /\ \A j \in 1..Len(path) : DigitAt(h[t].hash, j - 1) = path[j]
       /\ \A c \in ChildIndex : Routed(h, h[t].children[c], Append(path, c))

RECURSIVE Depth(_, _)
\* the depth of the deepest node of t, the root being at depth 0; -1 for the
\* empty map
Depth(h, t) ==
    IF IsNil(t) THEN -1
    ELSE LET below == {Depth(h, h[t].children[j]) : j \in ChildIndex}
         IN  1 + CHOOSE d \in below : \A e \in below : e <= d

(***************************************************************************)
(* C14: count invariant.  Every node reachable from the root of a map has  *)
(* count = 1 + the sum of the counts of its 8 children; nilMap has count 0 *)
(* and 8 children that are nilMap.  Stated of the map that a call returns, *)
(* in the state where it returns.                                          *)
(***************************************************************************)
CountInvariant ==
    /\ heap[nilMap].count = 0
    /\ \A j \in ChildIndex : heap[nilMap].children[j] = nilMap
    /\ \A p \in NodesOf(heap, Last.ref) :
           heap[p].count = 1 + SumSizes(heap, p, 0)

\* a Delete below the root of a map of three entries: the root was copied
\* and its count recalculated
CountInvariantWitness ==
    /\ Last.op = "Delete"
    /\ Size(heap, Receiver(Len(versions))) = 3
    /\ Size(heap, Last.ref) = 2
    /\ heap[Last.ref].hash = heap[Receiver(Len(versions))].hash
    /\ Last.ref # Receiver(Len(versions))

(***************************************************************************)
(* C15: routing invariant.  A node reached from the root by the child      *)
(* indexes c0, ..., c(d-1) stores a hash H with digit j equal to cj for    *)
(* j < d; no two nodes of a map store one hash; so the routed descent of   *)
(* Lookup reaches every stored entry.  Set and Delete, promotions          *)
(* included, keep this.  Stated of the map that a call returns, in the     *)
(* state where it returns.                                                 *)
(***************************************************************************)
RoutingInvariant ==
    LET t == Last.ref
        nodes == NodesOf(heap, t)
    IN  /\ Routed(heap, t, <<>>)
        /\ \A p, q \in nodes : heap[p].hash = heap[q].hash => p = q
        /\ \A p \in nodes :
               MatchedNode(heap, t, heap[p].hash, heap[p].hash) = p

\* a Delete that promoted a leaf from depth 2 into the root
RoutingInvariantWitness ==
    /\ Last.op = "Delete"
    /\ Promotes(heap, Receiver(Len(versions)), Last.key)
    /\ Depth(heap, Receiver(Len(versions))) = 2
    /\ heap[Receiver(Len(versions))].hash = HashOf[Last.key]
    /\ Depth(heap, Last.ref) = 1

(***************************************************************************)
(* C16: the panic of deleteLeftmost is never executed.  deleteLeftmost is  *)
(* called on a node that is not nilMap, and every node of count > 1 that   *)
(* it visits has a child that is not nilMap.  Stated of the map that a     *)
(* call returns, in the state where it returns, and of Delete of any key   *)
(* on it.                                                                  *)
(***************************************************************************)
NoPanic ==
    /\ ~panicked
    /\ LET t == Last.ref
       IN  /\ \A p \in NodesOf(heap, t) :
                  ~isLeaf(heap, p) => ChildrenOf(heap, p) # {}
           /\ \A k \in KeyDomain :
                  /\ ~Delete(heap, t, k).panic
                  /\ Promotes(heap, t, k) =>
                         LET n == MatchedNode(heap, t, HashOf[k], HashOf[k])
                             donor == heap[n].children[
                                          LargestChild(heap, n, 0, -1, -1)]
                         IN  ~IsNil(donor)

\* a map left by a promotion out of a donor that was no leaf, in which a
\* Delete promotes again
NoPanicWitness ==
    /\ Last.op = "Delete"
    /\ Promotes(heap, Receiver(Len(versions)), Last.key)
    /\ Depth(heap, Receiver(Len(versions))) = 2
    /\ \E k \in KeyDomain : Promotes(heap, Last.ref, k)

RECURSIVE Visits(_, _, _, _, _)
\* the receivers of the successive calls of lookupLowLevel, which setLowLevel
\* and deleteLowLevel descend alike: a call on nilMap returns before it
\* reads a child, a call on the node that stores hash returns too, any other
\* recurs on one child.  fuel calls are followed, then 0 stands for the
\* calls left out.
Visits(h, self, partialHash, hash, fuel) ==
    IF fuel = 0 THEN <<0>>
    ELSE IF IsNil(self) \/ hash = h[self].hash THEN <<self>>
    ELSE <<self>> \o Visits(h, h[self].children[Mod8(partialHash)],
                            Shr3(partialHash), hash, fuel - 1)

(***************************************************************************)
(* C20: termination despite the self-referencing nilMap.  In every map     *)
(* reached by Set and Delete the nodes other than nilMap form a finite     *)
(* tree without cycles (each child is smaller than its parent and no node  *)
(* is reached twice), the descent of Lookup, Set and Delete ends within    *)
(* Size + 1 calls and meets nilMap as its last receiver only, never        *)
(* reading a child of nilMap, and ForEach and Keys make Size calls.        *)
(* Stated of the map that a call returns, in the state where it returns.   *)
(***************************************************************************)
Terminates ==
    LET t == Last.ref
        nodes == NodesOf(heap, t)
        n == Size(heap, t)
    IN  /\ \A p \in nodes :
               /\ heap[p].count >= 1
               /\ \A c \in ChildrenOf(heap, p) :
                      heap[c].count < heap[p].count
        /\ Cardinality(nodes) = n
        /\ \A k \in KeyDomain :
               LET v == Visits(heap, t, HashOf[k], HashOf[k], n + 2)
               IN  /\ Len(v) <= n + 1
                   /\ \A j \in 1..Len(v) :
                          /\ v[j] # 0
                          /\ v[j] = nilMap => j = Len(v)
        /\ Len(ForEach(heap, t)) = n
        /\ ~Keys(heap, t).panic

\* the descent for a key that is not stored passes two nodes and ends on
\* nilMap
TerminatesWitness ==
    \E k \in KeyDomain :
        LET v == Visits(heap, Last.ref, HashOf[k], HashOf[k], 4)
        IN  /\ Len(v) = 3
            /\ v[3] = nilMap
            /\ ~Lookup(heap, Last.ref, k).found

RECURSIVE PathCopied(_, _, _, _, _, _)
\* new, in heap hNew, is a node allocated after hOld was taken that stands
\* for old on the descent for hash: its children are those of old but for
\* the one the descent takes, which stands for the child of old in turn
PathCopied(hOld, hNew, old, new, partialHash, hash) ==
    /\ new > Len(hOld)
    /\ IF IsNil(old) \/ hash = hOld[old].hash
       THEN hNew[new].children = hOld[old].children
       ELSE LET i == Mod8(partialHash)
            IN  /\ \A j \in ChildIndex \ {i} :
                       hNew[new].children[j] = hOld[old].children[j]
                /\ PathCopied(hOld, hNew, hOld[old].children[i],
                              hNew[new].children[i], Shr3(partialHash), hash)

(***************************************************************************)
(* C17: path copying in Set.  m.Set(k, v) allocates one node for each      *)
(* position of the descent for hash(k), from the root to the node that     *)
(* stores the hash or the nilMap slot that becomes the new leaf, and no    *)
(* other; in each new node every child but the one on the path is the      *)
(* very reference that the node of m at that position holds.               *)
(***************************************************************************)
SetCopiesPath ==
    [][(Returned /\ Last'.op = "Set") =>
          LET m == versions[Last'.from].ref
              hash == HashOf[Last'.key]
              path == Visits(heap, m, hash, hash, Len(heap))
          IN  /\ Len(heap') = Len(heap) + Len(path)
              /\ PathCopied(heap, heap', m, Last'.ref, hash, hash)]_vars

\* a Set that went down past a root holding a child off the path: the new
\* root shares that child with the old one and holds a new child on the path
SetCopiesPathWitness ==
    /\ Last.op = "Set"
    /\ LET m == Receiver(Len(versions))
           hash == HashOf[Last.key]
           path == Visits(heap, m, hash, hash, Len(heap))
       IN  /\ Len(path) = 2
           /\ Cardinality(ChildrenOf(heap, m)) = 2
           /\ Cardinality(ChildrenOf(heap, m)
                              \cap ChildrenOf(heap, Last.ref)) = 1

RECURSIVE NodeAt(_, _, _, _)
\* the node d levels below t on the descent for partialHash
NodeAt(h, t, partialHash, d) ==
    IF d = 0 THEN t
    ELSE NodeAt(h, h[t].children[Mod8(partialHash)], Shr3(partialHash), d - 1)

RECURSIVE LeftmostLeaf(_, _)
\* the leaf reached from t by taking, at each level, the child of lowest
\* index that is not nilMap
LeftmostLeaf(h, t) ==
    IF ChildrenOf(h, t) = {} THEN t
    ELSE LET i == CHOOSE j \in ChildIndex :
                      /\ h[t].children[j] # nilMap
                      /\ \A l \in 0..(j - 1) : h[t].children[l] = nilMap
         IN  LeftmostLeaf(h, h[t].children[i])

RECURSIVE Entries(_, _, _)
\* the entries of t, each with the child indexes that lead to it
Entries(h, t, path) ==
    IF IsNil(t) THEN {}
    ELSE {[path |-> path, key |-> h[t].key, hash |-> h[t].hash,
           value |-> h[t].value]}
         \cup UNION {Entries(h, h[t].children[j], Append(path, j)) :
                        j \in ChildIndex}

(***************************************************************************)
(* C18: delete promotion rule.  When Delete matches a node that has a      *)
(* child other than nilMap, the node in its position afterwards carries    *)
(* the key, hash and value of the leftmost leaf of the child of largest    *)
(* count, the lowest index winning a tie; its child at the donor index is  *)
(* the donor subtree less that leaf, and its other 7 children are the      *)
(* references the deleted node held.                                       *)
(***************************************************************************)
DeletePromotes ==
    [][(Returned /\ Last'.op = "Delete"
           /\ Promotes(heap, versions[Last'.from].ref, Last'.key)) =>
          LET m == versions[Last'.from].ref
              hash == HashOf[Last'.key]
              d == Len(Visits(heap, m, hash, hash, Len(heap))) - 1
              old == NodeAt(heap, m, hash, d)
              new == NodeAt(heap', Last'.ref, hash, d)
              donor == CHOOSE i \in ChildIndex :
                           \A j \in ChildIndex :
                               /\ Size(heap, heap[old].children[j])
                                      <= Size(heap, heap[old].children[i])
                               /\ j < i => Size(heap, heap[old].children[j])
                                               < Size(heap, heap[old].children[i])
              leaf == LeftmostLeaf(heap, heap[old].children[donor])
              gone == CHOOSE e \in Entries(heap, heap[old].children[donor], <<>>) :
                          e.hash = heap[leaf].hash
          IN  /\ heap[old].hash = hash
              /\ heap'[new].key = heap[leaf].key
              /\ heap'[new].hash = heap[leaf].hash
              /\ heap'[new].value = heap[leaf].value
              /\ Entries(heap', heap'[new].children[donor], <<>>)
                     = Entries(heap, heap[old].children[donor], <<>>) \ {gone}
              /\ \A j \in ChildIndex \ {donor} :
                     heap'[new].children[j] = heap[old].children[j]]_vars

\* a Delete of a node whose largest child stood after a smaller one, and
\* was no leaf
DeletePromotesWitness ==
    /\ Last.op = "Delete"
    /\ Promotes(heap, Receiver(Len(versions)), Last.key)
    /\ LET m == Receiver(Len(versions))
       IN  /\ heap[m].hash = HashOf[Last.key]
           /\ \E i, j \in ChildIndex :
                  /\ i < j
                  /\ Size(heap, heap[m].children[i]) = 1
                  /\ Size(heap, heap[m].children[j]) = 2
                  /\ heap[Last.ref].children[i] = heap[m].children[i]
                  /\ Size(heap, heap[Last.ref].children[j]) = 1

(***************************************************************************)
(* C19: depth bound.  No node of a map reached by Set and Delete lies      *)
(* deeper than ceil(64 / 3) = 22 levels below the root, the root being at  *)
(* depth 0, also where the digits of the hash are used up and the shifted  *)
(* hash is 0; Lookup, Set and Delete visit at most 23 nodes other than     *)
(* nilMap.  Stated of the handle a call returns, in the state where it     *)
(* returns.                                                                *)
(***************************************************************************)
DepthBound ==
    LET t == Last.ref
    IN  /\ Depth(heap, t) <= NumDigits
        /\ \A k \in DeepKeySet :
               LET v == Visits(heap, t, HashOf[k], HashOf[k], NumDigits + 3)
               IN  /\ \A j \in 1..Len(v) : v[j] # 0
                   /\ Cardinality({j \in 1..Len(v) : v[j] # nilMap})
                          <= NumDigits + 1

\* a Set of the key that shares its hash with the key stored at depth 22: it
\* came there with every digit used up, and the map is no deeper for it
DepthBoundWitness ==
    /\ Last.op = "Set"
    /\ Last.key = DeepKeys[Len(DeepKeys)]
    /\ Depth(heap, Receiver(Len(versions))) = NumDigits
    /\ Depth(heap, Last.ref) = NumDigits
    /\ LET hash == HashOf[Last.key]
           v == Visits(heap, Last.ref, hash, hash, NumDigits + 3)
       IN  /\ Len(v) = NumDigits + 1
           /\ heap[v[Len(v)]].hash = hash
           /\ heap[v[Len(v)]].key = DeepKeys[Len(DeepKeys) - 1]

\* the nodes that a handle reaches, and nilMap
Published ==
    {nilMap} \cup UNION {NodesOf(heap, versions[i].ref) : i \in 1..Len(versions)}

(***************************************************************************)
(* C13: non-interference.  While one goroutine is in Set or Delete on a    *)
(* handle and another in Lookup, Size, ForEach or Keys on that handle or   *)
(* an earlier one, their steps being single reads and writes of a field of *)
(* a node, every store of the writer goes to a node allocated in that very *)
(* call, one that no handle reaches (never nilMap), the writer returns     *)
(* what the call returns on its own, and the reader returns what it would  *)
(* have returned on its own.                                               *)
(***************************************************************************)
NonInterference ==
    /\ writer.busy =>
           \A j \in 1..Len(writer.stores) :
               /\ writer.stores[j].node > writer.base
               /\ writer.stores[j].node \notin Published
    /\ (writer.busy /\ writer.pc > Len(writer.stores)) =>
           LET before == SubSeq(heap, 1, writer.base)
               want == IF writer.op = "Set"
                       THEN Set(before, Last.ref, writer.key, writer.value)
                       ELSE Delete(before, Last.ref, writer.key)
           IN  /\ heap = want.heap
               /\ writer.ref = want.ref
    /\ reader.state = "done" => reader.result = reader.alone

\* Keys has returned the two keys of a map while, after it had read the
\* count, a Delete on that map promoted a leaf and returned
NonInterferenceWitness ==
    /\ reader.state = "done"
    /\ reader.op = "Keys"
    /\ Len(reader.out) = 2
    /\ Len(versions) > reader.born
    /\ Last.op = "Delete"
    /\ reader.ref = Receiver(Len(versions))
    /\ Promotes(heap, reader.ref, Last.key)

====
